---- MODULE Spec2Model ----
(***************************************************************************)
(* Order / payment lifecycle and denormalized movie counters of the online *)
(* cinema backend.                                                         *)
(*                                                                         *)
(* The database tables are the state: movies (price and counters), carts   *)
(* with their cart items, orders with their order items, payments with     *)
(* their payment items, movie likes, favorites, comments and ratings.  The *)
(* payment provider holds the payment intents created by create_payment    *)
(* and the refunds created by refund_payment.  Money is in cents (the      *)
(* columns are Numeric(10, 2), the sums are exact Decimal sums); the       *)
(* rating average is in hundredths.                                        *)
(*                                                                         *)
(* Spec        : every shop request handler runs alone (one action each).  *)
(* SpecTamper  : the checkout, cancel, payment and refund handlers running *)
(*               alone, plus the direct write of orders.total_amount that  *)
(*               tests/test_integration/test_payments.py performs.         *)
(* SpecConc    : cancel_order, stripe_webhook and refund_payment are split *)
(*               at their awaits into a read step and a commit step, so    *)
(*               that handlers of different requests interleave (READ      *)
(*               COMMITTED).                                               *)
(* SpecCart    : two users with carts; add_movie_to_cart is split between  *)
(*               its lookups and its INSERT.                               *)
(* SpecCounters: the reaction, favorite and comment handlers of one movie, *)
(*               split between their read and their write.                 *)
(* SpecRatings : the rating handlers of one movie and the admin recount,   *)
(*               each running alone.                                       *)
(* SpecActions : the reaction, favorite and comment handlers of one movie  *)
(*               called by two users, each request running alone.          *)
(* SpecRatingsConc: rate_movie and delete_rating of distinct users, split  *)
(*               between the load of the movie row and the commit.         *)
(* SpecBackfill: one user's reactions, favorites and comments, the ratings *)
(*               and the admin recount, each request running alone.        *)
(***************************************************************************)
EXTENDS Integers, Sequences, FiniteSets, TLC

\* ---------------------------------------------------------------- bounds
MaxOrders == 2
MaxIntents == 2
MaxPayments == 2
NumReqs == 2
MaxComments == 2
MaxCount == 2
MaxRatingOps == 5

Users == {1, 2}
\* the users that fill a cart and check out; the other user only calls
\* cancel_order and create_payment on orders that are not theirs
Shoppers == {1}
MovieIds == {1, 2}
\* a movie id that is in no row of movies (tests/test_integration/test_cart.py)
MissingMovieId == 9999
\* prices in cents, and the movies whose price the moderator edits
Prices == {5, 7}
RepricedMovies == {1}
OrderIds == 1..MaxOrders
PaymentIds == 1..MaxPayments
IntentIds == 1..MaxIntents
Reqs == 1..NumReqs
\* the movie whose counters are exercised, the users that react to it and
\* comment on it, the users that rate it, the ratings they give (RatingBase
\* allows 1..10) and the ids of its comments
CountedMovies == {1}
Reactors == {1}
Raters == {1, 2, 3}
RatingValues == {1, 2, 8, 10}
CommentIds == 1..MaxComments

\* ---------------------------------------------------------------- enums
PENDING == "pending"
PAID == "paid"
REFUNDED == "refunded"
CANCELED == "canceled"
OrderStatusEnum == {PENDING, PAID, REFUNDED, CANCELED}

SUCCESSFUL == "successful"
PaymentStatusEnum == {SUCCESSFUL, CANCELED, REFUNDED}

VARIABLES
    price,        \* movies.price, per movie id
    carts,        \* user id -> set of movie ids (DOMAIN = users that have a cart row)
    orders,       \* sequence of order rows, the index is orders.id
    payments,     \* sequence of payment rows, the index is payments.id
    intents,      \* provider side: payment intents, the index is the intent id
    refundCount,  \* provider side: number of refunds created per intent id
    reqs,         \* request handlers suspended between their read and their commit
    resp,         \* the response of the last handler that returned
    movie_likes,          \* rows of movie_likes: [user_id, movie_id, like]
    user_favorite_movies, \* rows of user_favorite_movies: [user_id, movie_id]
    movie_comments,       \* movie_comments, the index is the id; live = the row exists
    movie_ratings,        \* rows of movie_ratings: [user_id, movie_id, rating]
    movie_counters,       \* movies.like_count, favorite_count, comment_count,
                          \* rating_count and rating_average (in hundredths), per movie id
    rating_ops            \* number of rating requests served so far

shopVars == <<price, carts, orders, payments, intents, refundCount>>
counterVars == <<movie_likes, user_favorite_movies, movie_comments, movie_ratings,
                 movie_counters, rating_ops>>

vars == <<price, carts, orders, payments, intents, refundCount, reqs, resp,
          movie_likes, user_favorite_movies, movie_comments, movie_ratings,
          movie_counters, rating_ops>>

\* ---------------------------------------------------------------- helpers
RECURSIVE SumPriceAtOrder(_)
SumPriceAtOrder(items) ==
    IF items = {} THEN 0
    ELSE LET it == CHOOSE x \in items : TRUE
         IN it.price_at_order + SumPriceAtOrder(items \ {it})

RECURSIVE SumMoviePrices(_, _)
SumMoviePrices(movie_ids, pr) ==
    IF movie_ids = {} THEN 0
    ELSE LET m == CHOOSE x \in movie_ids : TRUE
         IN pr[m] + SumMoviePrices(movie_ids \ {m}, pr)

Response(op, status, detail) ==
    [op |-> op, status |-> status, detail |-> detail]

IdleReq ==
    [op |-> "idle", user |-> 0, id |-> 0, intent |-> 0, seen |-> PENDING,
     total |-> 0, items |-> {}]

Init ==
    /\ price = [m \in MovieIds |-> 5]
    /\ carts = <<>>
    /\ orders = <<>>
    /\ payments = <<>>
    /\ intents = <<>>
    /\ refundCount = [i \in IntentIds |-> 0]
    /\ reqs = [r \in Reqs |-> IdleReq]
    /\ resp = Response("none", 0, "")
    /\ movie_likes = {}
    /\ user_favorite_movies = {}
    /\ movie_comments = <<>>
    /\ movie_ratings = {}
    /\ movie_counters = [m \in MovieIds |->
                           [like_count |-> 0, favorite_count |-> 0, comment_count |-> 0,
                            rating_count |-> 0, rating_average |-> 0]]
    /\ rating_ops = 0

\* ---------------------------------------------------------------- cart
\* get_or_create_cart: the cart row is inserted (and committed) on first access
GetOrCreateCart(c, u) == IF u \in DOMAIN c THEN c ELSE (u :> {}) @@ c

\* movie ids of the user's PAID orders
PaidMovieIds(ords, u) ==
    {it.movie_id : it \in UNION {ords[o].items : o \in {x \in DOMAIN ords :
                        ords[x].user_id = u /\ ords[x].status = PAID}}}

\* mutant: the lookup of the caller's PAID orders is skipped
AddCheckNoPurchaseLookup(c, ords, pr, u, m) ==
    IF m \notin DOMAIN pr THEN 404
    ELSE IF m \in c[u] THEN 400
    ELSE 201

\* add_movie_to_cart, lines 176-210: the three lookups, in the handler's order
AddCheck(c, ords, pr, u, m) ==
    IF m \notin DOMAIN pr THEN 404
    ELSE IF m \in c[u] THEN 400
    ELSE IF m \in PaidMovieIds(ords, u) THEN 400
    ELSE 201

AddDetail(c, pr, u, m, code) ==
    IF code = 404 THEN "Movie does not exist."
    ELSE IF code = 400 /\ m \in c[u] THEN "Movie is already in the cart."
    ELSE IF code = 400 THEN "Movie has already been purchased."
    ELSE "Movie added to cart"

\* add_movie_to_cart, lines 213-215: INSERT INTO cart_items, commit
AddWrite(c, u, m) == [c EXCEPT ![u] = @ \cup {m}]

AddMovieToCart(u, m) ==
    LET c == GetOrCreateCart(carts, u)
        code == AddCheck(c, orders, price, u, m)
    IN
    /\ carts' = IF code = 201 THEN AddWrite(c, u, m) ELSE c
    /\ resp' = Response("add_movie_to_cart", code, AddDetail(c, price, u, m, code))
    /\ UNCHANGED <<price, orders, payments, intents, refundCount, reqs, counterVars>>

RemoveFromCart(u, m) ==
    LET c == GetOrCreateCart(carts, u) IN
    /\ IF m \notin c[u]
       THEN /\ carts' = c
            /\ resp' = Response("remove_from_cart", 404, "Item not in cart.")
       ELSE /\ carts' = [c EXCEPT ![u] = @ \ {m}]
            /\ resp' = Response("remove_from_cart", 204, "")
    /\ UNCHANGED <<price, orders, payments, intents, refundCount, reqs, counterVars>>

\* moderator update_movie, restricted to the price field
UpdateMoviePrice(m, p) ==
    /\ price[m] # p
    /\ price' = [price EXCEPT ![m] = p]
    /\ resp' = Response("update_movie", 200, "")
    /\ UNCHANGED <<carts, orders, payments, intents, refundCount, reqs, counterVars>>

\* ---------------------------------------------------------------- orders
OrderItems(o, movies, pr) ==
    {[id |-> <<o, m>>, movie_id |-> m, price_at_order |-> pr[m]] : m \in movies}

\* mutant: the total takes the price of one cart line only
OrderTotalOneLine(movie_ids, pr) == pr[CHOOSE m \in movie_ids : TRUE]

OrderTotal(movie_ids, pr) == SumMoviePrices(movie_ids, pr)

NewOrder(u, o, movie_ids, movies, pr) ==
    [user_id |-> u, status |-> PENDING,
     total_amount |-> OrderTotal(movie_ids, pr),
     items |-> OrderItems(o, movies, pr)]

\* mutant: the caller's PAID orders are not looked up
PlaceOrderCheckNoPaidLookup(c, ords, pr, u) ==
    LET movie_ids == IF u \in DOMAIN c THEN c[u] ELSE {}
        movies == movie_ids \cap DOMAIN pr
    IN IF movie_ids = {} THEN "Cart is empty."
       ELSE IF movies = {} THEN "No valid movies in the cart."
       ELSE PENDING

\* mutant: an empty cart is not rejected on its own
PlaceOrderCheckNoEmptyCart(c, ords, pr, u) ==
    LET movie_ids == IF u \in DOMAIN c THEN c[u] ELSE {}
        movies == movie_ids \cap DOMAIN pr
        existing_movie_ids == PaidMovieIds(ords, u) \cap movie_ids
    IN IF movies = {} THEN "No valid movies in the cart."
       ELSE IF existing_movie_ids # {} THEN "Movies already in pending order"
       ELSE PENDING

\* place_order, lines 102-150: the cart, its movies, the caller's PAID orders;
\* the detail of the rejection, or PENDING when the order is to be created
PlaceOrderCheck(c, ords, pr, u) ==
    LET movie_ids == IF u \in DOMAIN c THEN c[u] ELSE {}
        movies == movie_ids \cap DOMAIN pr
        existing_movie_ids == PaidMovieIds(ords, u) \cap movie_ids
    IN IF movie_ids = {} THEN "Cart is empty."
       ELSE IF movies = {} THEN "No valid movies in the cart."
       ELSE IF existing_movie_ids # {} THEN "Movies already in pending order"
       ELSE PENDING

PlaceOrderStatus(detail) ==
    IF detail = PENDING THEN 201
    ELSE IF detail = "Movies already in pending order" THEN 409
    ELSE 400

\* mutant: the cart is emptied at checkout
PlaceOrderClearsCart(u) ==
    LET movie_ids == IF u \in DOMAIN carts THEN carts[u] ELSE {}
        movies == movie_ids \cap DOMAIN price
        detail == PlaceOrderCheck(carts, orders, price, u)
        o == Len(orders) + 1
    IN
    /\ IF detail = PENDING
       THEN /\ Len(orders) < MaxOrders
            /\ orders' = Append(orders, NewOrder(u, o, movie_ids, movies, price))
            /\ carts' = [carts EXCEPT ![u] = {}]
       ELSE /\ orders' = orders
            /\ carts' = carts
    /\ resp' = Response("place_order", PlaceOrderStatus(detail), detail)
    /\ UNCHANGED <<price, payments, intents, refundCount, reqs, counterVars>>

PlaceOrder(u) ==
    LET movie_ids == IF u \in DOMAIN carts THEN carts[u] ELSE {}
        movies == movie_ids \cap DOMAIN price
        detail == PlaceOrderCheck(carts, orders, price, u)
        o == Len(orders) + 1
    IN
    /\ IF detail = PENDING
       THEN /\ Len(orders) < MaxOrders
            /\ orders' = Append(orders, NewOrder(u, o, movie_ids, movies, price))
       ELSE orders' = orders
    /\ resp' = Response("place_order", PlaceOrderStatus(detail), detail)
    /\ UNCHANGED <<price, carts, payments, intents, refundCount, reqs, counterVars>>

\* mutant: the status of the order is not checked
CancelCheckAnyStatus(ords, u, o) ==
    IF o \notin DOMAIN ords \/ ords[o].user_id # u THEN 404 ELSE 200

\* cancel_order, lines 305-316: the reads and the precondition checks
CancelCheck(ords, u, o) ==
    IF o \notin DOMAIN ords \/ ords[o].user_id # u THEN 404
    ELSE IF ords[o].status # PENDING THEN 409
    ELSE 200

CancelDetail(code) ==
    IF code = 404 THEN "Order not found."
    ELSE IF code = 409 THEN "Only pending orders can be canceled."
    ELSE "Order canceled successfully."

\* cancel_order, lines 318-319: UPDATE orders SET status = 'canceled' WHERE id = o
CancelWrite(ords, o) == [ords EXCEPT ![o].status = CANCELED]

CancelOrder(u, o) ==
    LET code == CancelCheck(orders, u, o) IN
    /\ orders' = IF code = 200 THEN CancelWrite(orders, o) ELSE orders
    /\ resp' = Response("cancel_order", code, CancelDetail(code))
    /\ UNCHANGED <<price, carts, payments, intents, refundCount, reqs, counterVars>>

\* ---------------------------------------------------------------- payments
\* mutant: the stored total is trusted
CreatePaymentCheckTrustTotal(ords, u, o) ==
    IF o \notin DOMAIN ords \/ ords[o].user_id # u \/ ords[o].status # PENDING THEN 404
    ELSE 201

\* create_payment, lines 110-128
CreatePaymentCheck(ords, u, o) ==
    IF o \notin DOMAIN ords \/ ords[o].user_id # u \/ ords[o].status # PENDING THEN 404
    ELSE IF SumPriceAtOrder(ords[o].items) # ords[o].total_amount THEN 400
    ELSE 201

CreatePayment(u, o) ==
    LET code == CreatePaymentCheck(orders, u, o) IN
    /\ IF code = 201
       THEN /\ Len(intents) < MaxIntents
            /\ intents' = Append(intents, [order_id |-> o, user_id |-> u])
            /\ resp' = Response("create_payment", 201, "payment_intent")
       ELSE /\ intents' = intents
            /\ resp' = Response("create_payment", code,
                                IF code = 404 THEN "Order not found or not payable"
                                ELSE "Order total mismatch")
    /\ UNCHANGED <<price, carts, orders, payments, refundCount, reqs, counterVars>>

\* mutant: the idempotency check finds nothing
ExistingPaymentNotLooked(pays, i) == FALSE

\* stripe_webhook, lines 219-224: the idempotency check
ExistingPayment(pays, i) ==
    \E p \in DOMAIN pays : pays[p].external_payment_id = i

\* mutant: only one order item gets a payment item
PaymentItemsOneLine(items) ==
    IF items = {} THEN {}
    ELSE LET it == CHOOSE x \in items : TRUE
         IN {[order_item_id |-> it.id, price_at_payment |-> it.price_at_order]}

\* stripe_webhook, lines 234-240: one payment item per order item
PaymentItems(items) ==
    {[order_item_id |-> it.id, price_at_payment |-> it.price_at_order] : it \in items}

\* stripe_webhook, lines 226-240: the payment row and its items, built from
\* the order as the handler loaded it
NewPayment(user_id, order_id, total_amount, items, i) ==
    [user_id |-> user_id, order_id |-> order_id, amount |-> total_amount,
     status |-> SUCCESSFUL, external_payment_id |-> i,
     items |-> PaymentItems(items)]

\* stripe_webhook, line 242: order.status = PAID; the unit of work emits the
\* UPDATE only when the value differs from the loaded one
MarkPaid(ords, order_id, seen) ==
    IF seen = PAID THEN ords ELSE [ords EXCEPT ![order_id].status = PAID]

\* delete_paid_items_for_user: movie ids joined through payment items of the
\* user's SUCCESSFUL payments
SuccessfullyPaidMovieIds(pays, ords, user_id) ==
    LET paidItemIds == UNION {{pi.order_item_id : pi \in pays[p].items} :
                              p \in {x \in DOMAIN pays : pays[x].status = SUCCESSFUL
                                                         /\ pays[x].user_id = user_id}}
        orderItems == UNION {ords[o].items : o \in DOMAIN ords}
    IN {oi.movie_id : oi \in {x \in orderItems : x.id \in paidItemIds}}

\* mutant: the whole cart is cleared
DeleteAllItemsForUser(c, pays, ords, user_id) ==
    IF user_id \notin DOMAIN c THEN c ELSE [c EXCEPT ![user_id] = {}]

DeletePaidItemsForUser(c, pays, ords, user_id) ==
    IF user_id \notin DOMAIN c THEN c
    ELSE [c EXCEPT ![user_id] = @ \ SuccessfullyPaidMovieIds(pays, ords, user_id)]

\* stripe_webhook, lines 244-252: flush, cart cleanup, commit
WebhookWrite(rq) ==
    LET pays == Append(payments, NewPayment(rq.user, rq.id, rq.total, rq.items, rq.intent))
        ords == MarkPaid(orders, rq.id, rq.seen)
    IN /\ Len(payments) < MaxPayments
       /\ payments' = pays
       /\ orders' = ords
       /\ carts' = DeletePaidItemsForUser(carts, pays, ords, rq.user)

\* what the handler holds after loading the order (lines 209-217)
WebhookLoaded(i) ==
    LET order_id == intents[i].order_id IN
    [op |-> "stripe_webhook", user |-> intents[i].user_id, id |-> order_id,
     intent |-> i, seen |-> orders[order_id].status,
     total |-> orders[order_id].total_amount, items |-> orders[order_id].items]

\* lines 254-273: the notification is sent after the commit and is not guarded
WebhookAnswer(i, emailOk) ==
    IF emailOk THEN Response("stripe_webhook", 200, "ok")
    ELSE Response("stripe_webhook", 500, "send_payment_email")

\* payment_intent.succeeded, the handler running alone
WebhookSucceeded(i, emailOk) ==
    /\ i \in DOMAIN intents
    /\ IF ExistingPayment(payments, i)
       THEN /\ resp' = Response("stripe_webhook", 200, "already_processed")
            /\ UNCHANGED <<carts, orders, payments>>
       ELSE /\ WebhookWrite(WebhookLoaded(i))
            /\ resp' = WebhookAnswer(i, emailOk)
    /\ UNCHANGED <<price, intents, refundCount, reqs, counterVars>>

\* mutant: a failed payment cancels the order
WebhookFailedCancelsOrder(i, emailOk) ==
    /\ i \in DOMAIN intents
    /\ orders' = [orders EXCEPT ![intents[i].order_id].status = CANCELED]
    /\ resp' = IF emailOk
               THEN Response("stripe_webhook", 200, "ok")
               ELSE Response("stripe_webhook", 500, "send_payment_email")
    /\ UNCHANGED <<price, carts, payments, intents, refundCount, reqs, counterVars>>

\* payment_intent.payment_failed
WebhookFailed(i, emailOk) ==
    /\ i \in DOMAIN intents
    /\ resp' = IF emailOk
               THEN Response("stripe_webhook", 200, "ok")
               ELSE Response("stripe_webhook", 500, "send_payment_email")
    /\ UNCHANGED <<price, carts, orders, payments, intents, refundCount, reqs, counterVars>>

\* any other event type, and an event whose signature does not verify
WebhookIgnored(sigOk) ==
    /\ resp' = IF sigOk THEN Response("stripe_webhook", 200, "ignored")
               ELSE Response("stripe_webhook", 400, "Invalid signature")
    /\ UNCHANGED <<price, carts, orders, payments, intents, refundCount, reqs, counterVars>>

\* ---------------------------------------------------------------- refunds
\* mutant: the status of the payment is not checked
RefundCheckAnyStatus(pays, p) ==
    IF p \notin DOMAIN pays THEN 404 ELSE 200

\* refund_payment, lines 476-491
RefundCheck(pays, p) ==
    IF p \notin DOMAIN pays THEN 404
    ELSE IF pays[p].status = REFUNDED THEN 409
    ELSE IF pays[p].status \notin {SUCCESSFUL, REFUNDED} THEN 409
    ELSE 200

RefundDetail(pays, p, code) ==
    IF code = 404 THEN "Payment not found"
    ELSE IF code = 409 /\ pays[p].status = REFUNDED THEN "Payment is already refunded"
    ELSE IF code = 409 THEN "Only successful payments can be refunded"
    ELSE IF code = 400 THEN "Stripe error"
    ELSE REFUNDED

\* mutant: the payment row is marked REFUNDED before the provider is called
RefundWriteBeforeProvider(p, providerOk) ==
    /\ payments' = [payments EXCEPT ![p].status = REFUNDED]
    /\ IF providerOk
       THEN /\ refundCount' = [refundCount EXCEPT ![payments[p].external_payment_id] = @ + 1]
            /\ orders' = [orders EXCEPT ![payments[p].order_id].status = REFUNDED]
            /\ resp' = Response("refund_payment", 200, REFUNDED)
       ELSE /\ UNCHANGED <<refundCount, orders>>
            /\ resp' = Response("refund_payment", 400, "Stripe error")

\* refund_payment, lines 493-515: provider call, then payment and order rows
RefundWrite(p, providerOk) ==
    IF providerOk
    THEN /\ refundCount' = [refundCount EXCEPT ![payments[p].external_payment_id] = @ + 1]
         /\ payments' = [payments EXCEPT ![p].status = REFUNDED]
         /\ orders' = [orders EXCEPT ![payments[p].order_id].status = REFUNDED]
         /\ resp' = Response("refund_payment", 200, REFUNDED)
    ELSE /\ UNCHANGED <<refundCount, payments, orders>>
         /\ resp' = Response("refund_payment", 400, "Stripe error")

RefundPayment(p, providerOk) ==
    LET code == RefundCheck(payments, p) IN
    /\ IF code = 200
       THEN RefundWrite(p, providerOk)
       ELSE /\ resp' = Response("refund_payment", code, RefundDetail(payments, p, code))
            /\ UNCHANGED <<refundCount, payments, orders>>
    /\ UNCHANGED <<price, carts, intents, reqs, counterVars>>

\* the direct write of orders.total_amount that test_create_payment_total_mismatch
\* performs on a PENDING order (no handler of the application writes that column)
TamperedTotal == 999999

TamperTotal(o) ==
    /\ o \in DOMAIN orders
    /\ orders[o].status = PENDING
    /\ orders[o].total_amount # TamperedTotal
    /\ orders' = [orders EXCEPT ![o].total_amount = TamperedTotal]
    /\ resp' = Response("none", 0, "")
    /\ UNCHANGED <<price, carts, payments, intents, refundCount, reqs, counterVars>>

\* ---------------------------------------------------------------- Spec
Next ==
    \/ \E u \in Shoppers, m \in MovieIds \cup {MissingMovieId} : AddMovieToCart(u, m)
    \/ \E u \in Shoppers, m \in MovieIds : RemoveFromCart(u, m)
    \/ \E m \in RepricedMovies, p \in Prices : UpdateMoviePrice(m, p)
    \/ \E u \in Shoppers : PlaceOrder(u)
    \/ \E u \in Users, o \in OrderIds : CancelOrder(u, o)
    \/ \E u \in Users, o \in OrderIds : CreatePayment(u, o)
    \/ \E i \in IntentIds, emailOk \in BOOLEAN : WebhookSucceeded(i, emailOk)
    \/ \E i \in IntentIds, emailOk \in BOOLEAN : WebhookFailed(i, emailOk)
    \/ \E sigOk \in BOOLEAN : WebhookIgnored(sigOk)
    \/ \E p \in PaymentIds, providerOk \in BOOLEAN : RefundPayment(p, providerOk)

Spec == Init /\ [][Next]_vars

NextTamper ==
    \/ \E u \in Shoppers, m \in MovieIds : AddMovieToCart(u, m)
    \/ \E u \in Shoppers : PlaceOrder(u)
    \/ \E o \in OrderIds : TamperTotal(o)
    \/ \E u \in Users, o \in OrderIds : CancelOrder(u, o)
    \/ \E u \in Users, o \in OrderIds : CreatePayment(u, o)
    \/ \E i \in IntentIds, emailOk \in BOOLEAN : WebhookSucceeded(i, emailOk)
    \/ \E p \in PaymentIds, providerOk \in BOOLEAN : RefundPayment(p, providerOk)

SpecTamper == Init /\ [][NextTamper]_vars

\* ---------------------------------------------------------------- SpecConc
\* Each request has its own session and transaction.  A handler reads, is
\* suspended at an await, and later flushes and commits; the rows it read are
\* not locked in between.
HasFreeReq == \E r \in Reqs : reqs[r].op = "idle"
FreeReq == CHOOSE r \in Reqs : reqs[r].op = "idle" /\ \A q \in Reqs : q < r => reqs[q].op # "idle"

CancelBegin(u, o) ==
    LET code == CancelCheck(orders, u, o) IN
    /\ HasFreeReq
    /\ IF code = 200
       THEN /\ reqs' = [reqs EXCEPT ![FreeReq] =
                          [IdleReq EXCEPT !.op = "cancel_order", !.user = u, !.id = o,
                                          !.seen = orders[o].status]]
            /\ resp' = resp
       ELSE /\ reqs' = reqs
            /\ resp' = Response("cancel_order", code, CancelDetail(code))
    /\ UNCHANGED <<price, carts, orders, payments, intents, refundCount, counterVars>>

CancelCommit(r) ==
    /\ reqs[r].op = "cancel_order"
    /\ orders' = CancelWrite(orders, reqs[r].id)
    /\ resp' = Response("cancel_order", 200, CancelDetail(200))
    /\ reqs' = [reqs EXCEPT ![r] = IdleReq]
    /\ UNCHANGED <<price, carts, payments, intents, refundCount, counterVars>>

WebhookBegin(i) ==
    /\ i \in DOMAIN intents
    /\ HasFreeReq
    /\ IF ExistingPayment(payments, i)
       THEN /\ reqs' = reqs
            /\ resp' = Response("stripe_webhook", 200, "already_processed")
       ELSE /\ reqs' = [reqs EXCEPT ![FreeReq] = WebhookLoaded(i)]
            /\ resp' = resp
    /\ UNCHANGED <<price, carts, orders, payments, intents, refundCount, counterVars>>

WebhookCommit(r, emailOk) ==
    /\ reqs[r].op = "stripe_webhook"
    /\ WebhookWrite(reqs[r])
    /\ resp' = WebhookAnswer(reqs[r].intent, emailOk)
    /\ reqs' = [reqs EXCEPT ![r] = IdleReq]
    /\ UNCHANGED <<price, intents, refundCount, counterVars>>

RefundBegin(p) ==
    LET code == RefundCheck(payments, p) IN
    /\ HasFreeReq
    /\ IF code = 200
       THEN /\ reqs' = [reqs EXCEPT ![FreeReq] =
                          [IdleReq EXCEPT !.op = "refund_payment", !.id = p,
                                          !.seen = payments[p].status]]
            /\ resp' = resp
       ELSE /\ reqs' = reqs
            /\ resp' = Response("refund_payment", code, RefundDetail(payments, p, code))
    /\ UNCHANGED <<price, carts, orders, payments, intents, refundCount, counterVars>>

RefundCommit(r, providerOk) ==
    /\ reqs[r].op = "refund_payment"
    /\ RefundWrite(reqs[r].id, providerOk)
    /\ reqs' = [reqs EXCEPT ![r] = IdleReq]
    /\ UNCHANGED <<price, carts, intents, counterVars>>

NextConc ==
    \/ \E u \in Shoppers, m \in MovieIds : AddMovieToCart(u, m)
    \/ \E u \in Shoppers : PlaceOrder(u)
    \/ \E u \in Shoppers, o \in OrderIds : CreatePayment(u, o)
    \/ \E u \in Shoppers, o \in OrderIds : CancelBegin(u, o)
    \/ \E r \in Reqs : CancelCommit(r)
    \/ \E i \in IntentIds : WebhookBegin(i)
    \/ \E r \in Reqs, emailOk \in BOOLEAN : WebhookCommit(r, emailOk)
    \/ \E p \in PaymentIds : RefundBegin(p)
    \/ \E r \in Reqs, providerOk \in BOOLEAN : RefundCommit(r, providerOk)

SpecConc == Init /\ [][NextConc]_vars

\* ---------------------------------------------------------------- SpecCart
\* Both users fill a cart and check out, and add_movie_to_cart is split at the
\* await between its lookups and its INSERT, so that a webhook can commit in
\* between.
AddBegin(u, m) ==
    LET c == GetOrCreateCart(carts, u)
        code == AddCheck(c, orders, price, u, m)
    IN
    /\ HasFreeReq
    /\ carts' = c
    /\ IF code = 201
       THEN /\ reqs' = [reqs EXCEPT ![FreeReq] =
                          [IdleReq EXCEPT !.op = "add_movie_to_cart", !.user = u, !.id = m]]
            /\ resp' = resp
       ELSE /\ reqs' = reqs
            /\ resp' = Response("add_movie_to_cart", code, AddDetail(c, price, u, m, code))
    /\ UNCHANGED <<price, orders, payments, intents, refundCount, counterVars>>

\* the INSERT of the cart item; uq_cart_movie rejects a second line of the
\* same movie, and the handler does not catch the IntegrityError
AddCommit(r) ==
    LET u == reqs[r].user
        m == reqs[r].id
    IN
    /\ reqs[r].op = "add_movie_to_cart"
    /\ IF m \in carts[u]
       THEN /\ carts' = carts
            /\ resp' = Response("add_movie_to_cart", 500, "uq_cart_movie")
       ELSE /\ carts' = AddWrite(carts, u, m)
            /\ resp' = Response("add_movie_to_cart", 201, "Movie added to cart")
    /\ reqs' = [reqs EXCEPT ![r] = IdleReq]
    /\ UNCHANGED <<price, orders, payments, intents, refundCount, counterVars>>

NextCart ==
    \/ \E u \in Users, m \in MovieIds : AddBegin(u, m)
    \/ \E r \in Reqs : AddCommit(r)
    \/ \E u \in Shoppers : PlaceOrder(u)
    \/ \E u \in Shoppers, o \in OrderIds : CreatePayment(u, o)
    \/ \E i \in IntentIds, emailOk \in BOOLEAN : WebhookSucceeded(i, emailOk)
    \/ \E p \in PaymentIds, providerOk \in BOOLEAN : RefundPayment(p, providerOk)

SpecCart == Init /\ [][NextCart]_vars

\* ---------------------------------------------------------------- counters
\* increment_counter: UPDATE movies SET <counter> = <counter> + delta
IncrementCounter(cnt, movie_id, counter, delta) ==
    [cnt EXCEPT ![movie_id][counter] = @ + delta]

\* the counter stays within the explored range
CounterInRange(cnt, movie_id, counter, delta) ==
    cnt[movie_id][counter] + delta \in (0 - MaxCount)..MaxCount

\* SELECT like FROM movie_likes WHERE user_id = .. AND movie_id = ..
Reaction(rows, user_id, movie_id) ==
    IF \E r \in rows : r.user_id = user_id /\ r.movie_id = movie_id
    THEN IF (CHOOSE r \in rows : r.user_id = user_id /\ r.movie_id = movie_id).like
         THEN "like" ELSE "dislike"
    ELSE "none"

ReactionOf(is_like) == IF is_like THEN "like" ELSE "dislike"

\* mutant: a first dislike is counted like a first like
ToggleDeltaCountsDislike(current, is_like) ==
    IF current = "none" THEN 1
    ELSE IF current = "like" /\ ~is_like THEN 0 - 1
    ELSE IF current = "dislike" /\ is_like THEN 1
    ELSE 0

\* toggle_movie_reaction, lines 63-82: the delta follows from the reaction read
ToggleDelta(current, is_like) ==
    IF current = "none" THEN (IF is_like THEN 1 ELSE 0)
    ELSE IF current = "like" /\ ~is_like THEN 0 - 1
    ELSE IF current = "dislike" /\ is_like THEN 1
    ELSE 0

\* toggle_movie_reaction, lines 71-91: INSERT when no reaction was read,
\* otherwise UPDATE .. WHERE user_id = .. AND movie_id = ..
ToggleWrite(rows, user_id, movie_id, current, is_like) ==
    IF current = "none"
    THEN rows \cup {[user_id |-> user_id, movie_id |-> movie_id, like |-> is_like]}
    ELSE {IF r.user_id = user_id /\ r.movie_id = movie_id
          THEN [r EXCEPT !.like = is_like] ELSE r : r \in rows}

\* the rows that DELETE FROM movie_likes WHERE user_id = .. AND movie_id = .. removes
ReactionRows(rows, user_id, movie_id) ==
    {r \in rows : r.user_id = user_id /\ r.movie_id = movie_id}

FavoriteRow(user_id, movie_id) == [user_id |-> user_id, movie_id |-> movie_id]

\* like_movie / dislike_movie: the movie lookup and the read of the reaction
ToggleBegin(u, m, is_like) ==
    LET current == Reaction(movie_likes, u, m) IN
    /\ HasFreeReq
    /\ IF m \notin DOMAIN price
       THEN /\ reqs' = reqs
            /\ resp' = Response("toggle_movie_reaction", 404, "Movie not found.")
       ELSE IF current = ReactionOf(is_like)
       THEN /\ reqs' = reqs
            /\ resp' = Response("toggle_movie_reaction", 204, "")
       ELSE /\ reqs' = [reqs EXCEPT ![FreeReq] =
                          [IdleReq EXCEPT !.op = IF is_like THEN "like_movie" ELSE "dislike_movie",
                                          !.user = u, !.id = m, !.seen = current]]
            /\ resp' = resp
    /\ UNCHANGED <<shopVars, counterVars>>

\* the row write, the counter delta and the commit; the PRIMARY KEY rejects
\* the INSERT of a second row, and an UPDATE that matches no row is not noticed
ToggleCommit(r) ==
    LET u == reqs[r].user
        m == reqs[r].id
        is_like == reqs[r].op = "like_movie"
        delta == ToggleDelta(reqs[r].seen, is_like)
    IN
    /\ reqs[r].op \in {"like_movie", "dislike_movie"}
    /\ IF reqs[r].seen = "none" /\ ReactionRows(movie_likes, u, m) # {}
       THEN /\ UNCHANGED <<movie_likes, movie_counters>>
            /\ resp' = Response("toggle_movie_reaction", 500, "IntegrityError")
       ELSE /\ CounterInRange(movie_counters, m, "like_count", delta)
            /\ movie_likes' = ToggleWrite(movie_likes, u, m, reqs[r].seen, is_like)
            /\ movie_counters' = IF delta # 0
                                 THEN IncrementCounter(movie_counters, m, "like_count", delta)
                                 ELSE movie_counters
            /\ resp' = Response("toggle_movie_reaction", 204, "")
    /\ reqs' = [reqs EXCEPT ![r] = IdleReq]
    /\ UNCHANGED <<shopVars, user_favorite_movies, movie_comments, movie_ratings, rating_ops>>

\* remove_reaction, lines 167-171: the read of the previous reaction
RemoveReactionBegin(u, m) ==
    /\ HasFreeReq
    /\ reqs' = [reqs EXCEPT ![FreeReq] =
                  [IdleReq EXCEPT !.op = "remove_reaction", !.user = u, !.id = m,
                                  !.seen = Reaction(movie_likes, u, m)]]
    /\ resp' = resp
    /\ UNCHANGED <<shopVars, counterVars>>

\* remove_reaction, lines 173-186: DELETE, 404 when no row was deleted, the
\* decrement when the reaction read was a like, commit
RemoveReactionCommit(r) ==
    LET u == reqs[r].user
        m == reqs[r].id
        deleted == ReactionRows(movie_likes, u, m)
    IN
    /\ reqs[r].op = "remove_reaction"
    /\ IF deleted = {}
       THEN /\ UNCHANGED <<movie_likes, movie_counters>>
            /\ resp' = Response("remove_reaction", 404,
                                "Movie does not have your reaction or does not exist")
       ELSE /\ movie_likes' = movie_likes \ deleted
            /\ IF reqs[r].seen = "like"
               THEN /\ CounterInRange(movie_counters, m, "like_count", 0 - 1)
                    /\ movie_counters' = IncrementCounter(movie_counters, m, "like_count", 0 - 1)
               ELSE movie_counters' = movie_counters
            /\ resp' = Response("remove_reaction", 204, "")
    /\ reqs' = [reqs EXCEPT ![r] = IdleReq]
    /\ UNCHANGED <<shopVars, user_favorite_movies, movie_comments, movie_ratings, rating_ops>>

\* add_to_favorites, lines 240-258: the movie lookup and the favorite lookup
AddToFavoritesBegin(u, m) ==
    /\ HasFreeReq
    /\ IF m \notin DOMAIN price
       THEN /\ reqs' = reqs
            /\ resp' = Response("add_to_favorites", 404, "Movie does not exist.")
       ELSE IF FavoriteRow(u, m) \in user_favorite_movies
       THEN /\ reqs' = reqs
            /\ resp' = Response("add_to_favorites", 409, "Movie is already in your favorites.")
       ELSE /\ reqs' = [reqs EXCEPT ![FreeReq] =
                          [IdleReq EXCEPT !.op = "add_to_favorites", !.user = u, !.id = m]]
            /\ resp' = resp
    /\ UNCHANGED <<shopVars, counterVars>>

\* add_to_favorites, lines 260-264: INSERT (rejected by the PRIMARY KEY when
\* the row exists), increment, commit
AddToFavoritesCommit(r) ==
    LET u == reqs[r].user
        m == reqs[r].id
    IN
    /\ reqs[r].op = "add_to_favorites"
    /\ IF FavoriteRow(u, m) \in user_favorite_movies
       THEN /\ UNCHANGED <<user_favorite_movies, movie_counters>>
            /\ resp' = Response("add_to_favorites", 500, "IntegrityError")
       ELSE /\ CounterInRange(movie_counters, m, "favorite_count", 1)
            /\ user_favorite_movies' = user_favorite_movies \cup {FavoriteRow(u, m)}
            /\ movie_counters' = IncrementCounter(movie_counters, m, "favorite_count", 1)
            /\ resp' = Response("add_to_favorites", 204, "")
    /\ reqs' = [reqs EXCEPT ![r] = IdleReq]
    /\ UNCHANGED <<shopVars, movie_likes, movie_comments, movie_ratings, rating_ops>>

\* remove_from_favorites: DELETE, 404 when no row was deleted, decrement, commit
RemoveFromFavorites(u, m) ==
    /\ IF FavoriteRow(u, m) \notin user_favorite_movies
       THEN /\ UNCHANGED <<user_favorite_movies, movie_counters>>
            /\ resp' = Response("remove_from_favorites", 404,
                                "Movie is not in favorites or does not exist")
       ELSE /\ CounterInRange(movie_counters, m, "favorite_count", 0 - 1)
            /\ user_favorite_movies' = user_favorite_movies \ {FavoriteRow(u, m)}
            /\ movie_counters' = IncrementCounter(movie_counters, m, "favorite_count", 0 - 1)
            /\ resp' = Response("remove_from_favorites", 204, "")
    /\ UNCHANGED <<shopVars, reqs, movie_likes, movie_comments, movie_ratings, rating_ops>>

\* ---------------------------------------------------------------- comments
LiveComments(cs) == {c \in DOMAIN cs : cs[c].live}

\* the comments that db.delete(comment) deletes: the comment and, through the
\* cascade of MovieCommentModel.replies, its replies and theirs
RECURSIVE WithReplies(_, _)
WithReplies(cs, ids) ==
    LET more == ids \cup {c \in LiveComments(cs) : cs[c].parent_id \in ids}
    IN IF more = ids THEN ids ELSE WithReplies(cs, more)

\* create_comment; parent_id 0 stands for no parent
CreateComment(u, m, parent_id) ==
    /\ IF m \notin DOMAIN price
       THEN /\ UNCHANGED <<movie_comments, movie_counters>>
            /\ resp' = Response("create_comment", 404, "Movie not found")
       ELSE IF /\ parent_id # 0
               /\ \/ parent_id \notin LiveComments(movie_comments)
                  \/ movie_comments[parent_id].movie_id # m
       THEN /\ UNCHANGED <<movie_comments, movie_counters>>
            /\ resp' = Response("create_comment", 400, "Invalid parent comment")
       ELSE /\ Len(movie_comments) < MaxComments
            /\ CounterInRange(movie_counters, m, "comment_count", 1)
            /\ movie_comments' = Append(movie_comments,
                                        [movie_id |-> m, user_id |-> u,
                                         parent_id |-> parent_id, live |-> TRUE])
            /\ movie_counters' = IncrementCounter(movie_counters, m, "comment_count", 1)
            /\ resp' = Response("create_comment", 201, "")
    /\ UNCHANGED <<shopVars, reqs, movie_likes, user_favorite_movies, movie_ratings, rating_ops>>

\* delete_comment, lines 478-492: the comment is loaded and checked, and
\* db.delete loads the replies that the cascade deletes with it
DeleteCommentCheck(cs, u, m, c) ==
    IF c \notin LiveComments(cs) THEN 404
    ELSE IF cs[c].movie_id # m THEN 404
    ELSE IF cs[c].user_id # u THEN 403
    ELSE 204

DeleteCommentBegin(u, m, c) ==
    LET code == DeleteCommentCheck(movie_comments, u, m, c) IN
    /\ HasFreeReq
    /\ IF code = 204
       THEN /\ reqs' = [reqs EXCEPT ![FreeReq] =
                          [IdleReq EXCEPT !.op = "delete_comment", !.user = u, !.id = m,
                                          !.items = WithReplies(movie_comments, {c})]]
            /\ resp' = resp
       ELSE /\ reqs' = reqs
            /\ resp' = Response("delete_comment", code,
                                IF code = 403 THEN "Not authorized" ELSE "Comment not found")
    /\ UNCHANGED <<shopVars, counterVars>>

\* delete_comment, lines 493-494: the flush deletes the loaded rows by primary
\* key (a row that is gone only raises a warning; replies that were not loaded
\* keep their row, parent_id SET NULL), then the decrement and the commit
DeleteCommentWrite(cs, ids) ==
    [c \in DOMAIN cs |->
        IF c \in ids THEN [cs[c] EXCEPT !.live = FALSE]
        ELSE IF cs[c].parent_id \in ids THEN [cs[c] EXCEPT !.parent_id = 0]
        ELSE cs[c]]

DeleteCommentCommit(r) ==
    /\ reqs[r].op = "delete_comment"
    /\ CounterInRange(movie_counters, reqs[r].id, "comment_count", 0 - 1)
    /\ movie_comments' = DeleteCommentWrite(movie_comments, reqs[r].items)
    /\ movie_counters' = IncrementCounter(movie_counters, reqs[r].id, "comment_count", 0 - 1)
    /\ resp' = Response("delete_comment", 204, "")
    /\ reqs' = [reqs EXCEPT ![r] = IdleReq]
    /\ UNCHANGED <<shopVars, movie_likes, user_favorite_movies, movie_ratings, rating_ops>>

\* ---------------------------------------------------------------- SpecCounters
\* The reaction, favorite and comment handlers of one movie; the handlers that
\* read before they write are split at that await.
NextCounters ==
    \/ \E u \in Reactors, m \in CountedMovies, is_like \in BOOLEAN : ToggleBegin(u, m, is_like)
    \/ \E r \in Reqs : ToggleCommit(r)
    \/ \E u \in Reactors, m \in CountedMovies : RemoveReactionBegin(u, m)
    \/ \E r \in Reqs : RemoveReactionCommit(r)
    \/ \E u \in Reactors, m \in CountedMovies : AddToFavoritesBegin(u, m)
    \/ \E r \in Reqs : AddToFavoritesCommit(r)
    \/ \E u \in Reactors, m \in CountedMovies : RemoveFromFavorites(u, m)
    \/ \E u \in Reactors, m \in CountedMovies, parent_id \in {0} \cup CommentIds :
          CreateComment(u, m, parent_id)
    \/ \E u \in Users, m \in CountedMovies, c \in CommentIds : DeleteCommentBegin(u, m, c)
    \/ \E r \in Reqs : DeleteCommentCommit(r)

SpecCounters == Init /\ [][NextCounters]_vars

\* ---------------------------------------------------------------- SpecActions
\* The same handlers, each running from its first read to its commit with no
\* other request in between.

\* like_movie / dislike_movie with toggle_movie_reaction
ToggleMovieReaction(u, m, is_like) ==
    LET current == Reaction(movie_likes, u, m)
        delta == ToggleDelta(current, is_like)
    IN
    /\ IF m \notin DOMAIN price
       THEN /\ UNCHANGED <<movie_likes, movie_counters>>
            /\ resp' = Response("toggle_movie_reaction", 404, "Movie not found.")
       ELSE IF current = ReactionOf(is_like)
       THEN /\ UNCHANGED <<movie_likes, movie_counters>>
            /\ resp' = Response("toggle_movie_reaction", 204, "")
       ELSE /\ CounterInRange(movie_counters, m, "like_count", delta)
            /\ movie_likes' = ToggleWrite(movie_likes, u, m, current, is_like)
            /\ movie_counters' = IF delta # 0
                                 THEN IncrementCounter(movie_counters, m, "like_count", delta)
                                 ELSE movie_counters
            /\ resp' = Response("toggle_movie_reaction", 204, "")
    /\ UNCHANGED <<shopVars, reqs, user_favorite_movies, movie_comments, movie_ratings,
                   rating_ops>>

LikeMovie(u, m) == ToggleMovieReaction(u, m, TRUE)

DislikeMovie(u, m) == ToggleMovieReaction(u, m, FALSE)

\* remove_reaction
RemoveReaction(u, m) ==
    LET previous == Reaction(movie_likes, u, m)
        deleted == ReactionRows(movie_likes, u, m)
    IN
    /\ IF deleted = {}
       THEN /\ UNCHANGED <<movie_likes, movie_counters>>
            /\ resp' = Response("remove_reaction", 404,
                                "Movie does not have your reaction or does not exist")
       ELSE /\ movie_likes' = movie_likes \ deleted
            /\ IF previous = "like"
               THEN /\ CounterInRange(movie_counters, m, "like_count", 0 - 1)
                    /\ movie_counters' = IncrementCounter(movie_counters, m, "like_count", 0 - 1)
               ELSE movie_counters' = movie_counters
            /\ resp' = Response("remove_reaction", 204, "")
    /\ UNCHANGED <<shopVars, reqs, user_favorite_movies, movie_comments, movie_ratings,
                   rating_ops>>

\* add_to_favorites
AddToFavorites(u, m) ==
    /\ IF m \notin DOMAIN price
       THEN /\ UNCHANGED <<user_favorite_movies, movie_counters>>
            /\ resp' = Response("add_to_favorites", 404, "Movie does not exist.")
       ELSE IF FavoriteRow(u, m) \in user_favorite_movies
       THEN /\ UNCHANGED <<user_favorite_movies, movie_counters>>
            /\ resp' = Response("add_to_favorites", 409, "Movie is already in your favorites.")
       ELSE /\ CounterInRange(movie_counters, m, "favorite_count", 1)
            /\ user_favorite_movies' = user_favorite_movies \cup {FavoriteRow(u, m)}
            /\ movie_counters' = IncrementCounter(movie_counters, m, "favorite_count", 1)
            /\ resp' = Response("add_to_favorites", 204, "")
    /\ UNCHANGED <<shopVars, reqs, movie_likes, movie_comments, movie_ratings, rating_ops>>

\* delete_comment: the comment and the replies that the cascade loads are
\* deleted, and comment_count is decremented by one
DeleteComment(u, m, c) ==
    LET code == DeleteCommentCheck(movie_comments, u, m, c) IN
    /\ IF code = 204
       THEN /\ CounterInRange(movie_counters, m, "comment_count", 0 - 1)
            /\ movie_comments' = DeleteCommentWrite(movie_comments,
                                                    WithReplies(movie_comments, {c}))
            /\ movie_counters' = IncrementCounter(movie_counters, m, "comment_count", 0 - 1)
            /\ resp' = Response("delete_comment", 204, "")
       ELSE /\ UNCHANGED <<movie_comments, movie_counters>>
            /\ resp' = Response("delete_comment", code,
                                IF code = 403 THEN "Not authorized" ELSE "Comment not found")
    /\ UNCHANGED <<shopVars, reqs, movie_likes, user_favorite_movies, movie_ratings, rating_ops>>

NextActions ==
    \/ \E u \in Users, m \in CountedMovies \cup {MissingMovieId}, is_like \in BOOLEAN :
          ToggleMovieReaction(u, m, is_like)
    \/ \E u \in Users, m \in CountedMovies \cup {MissingMovieId} : RemoveReaction(u, m)
    \/ \E u \in Users, m \in CountedMovies \cup {MissingMovieId} : AddToFavorites(u, m)
    \/ \E u \in Users, m \in CountedMovies \cup {MissingMovieId} : RemoveFromFavorites(u, m)
    \/ \E u \in Users, m \in CountedMovies, parent_id \in {0} \cup CommentIds :
          CreateComment(u, m, parent_id)
    \/ \E u \in Users, m \in CountedMovies, c \in CommentIds : DeleteComment(u, m, c)

SpecActions == Init /\ [][NextActions]_vars

\* ---------------------------------------------------------------- ratings
\* no rating: old_rating / new_rating is None
NoRating == 0

\* round(x, 2) of x = num / den hundredths: to the nearest hundredth, a tie to
\* the even one
Round2(num, den) ==
    LET q == num \div den
        twice == 2 * (num - q * den)
    IN IF twice > den THEN q + 1
       ELSE IF twice < den THEN q
       ELSE IF q % 2 = 0 THEN q ELSE q + 1

\* update_movie_rating_stats; the average is kept in hundredths
UpdateMovieRatingStats(st, old_rating, new_rating) ==
    LET current_avg == st.rating_average
        current_count == st.rating_count
    IN IF old_rating = NoRating /\ new_rating # NoRating
       THEN [st EXCEPT !.rating_count = current_count + 1,
                       !.rating_average = Round2(current_avg * current_count + 100 * new_rating,
                                                 current_count + 1)]
       ELSE IF old_rating # NoRating /\ new_rating # NoRating
       THEN [st EXCEPT !.rating_average =
                           Round2(current_avg * current_count - 100 * old_rating
                                      + 100 * new_rating, current_count)]
       ELSE IF old_rating # NoRating /\ new_rating = NoRating
       THEN IF current_count <= 1
            THEN [st EXCEPT !.rating_count = 0, !.rating_average = 0]
            ELSE [st EXCEPT !.rating_count = current_count - 1,
                            !.rating_average = Round2(current_avg * current_count
                                                          - 100 * old_rating,
                                                      current_count - 1)]
       ELSE st

\* SELECT rating FROM movie_ratings WHERE user_id = .. AND movie_id = ..
CurrentRating(rows, user_id, movie_id) ==
    IF \E r \in rows : r.user_id = user_id /\ r.movie_id = movie_id
    THEN (CHOOSE r \in rows : r.user_id = user_id /\ r.movie_id = movie_id).rating
    ELSE NoRating

RatingRows(rows, user_id, movie_id) ==
    {r \in rows : r.user_id = user_id /\ r.movie_id = movie_id}

\* rate_movie: UPDATE the caller's row, INSERT it when there is none, then
\* update_movie_rating_stats with the rating read before.  The handler reads
\* the updated row from the result of an UPDATE that has no RETURNING clause
\* (line 101): rowsReturned tells whether that result hands the row back or
\* the read raises and the transaction is rolled back.
RateMovie(u, m, rating, rowsReturned) ==
    LET current_rating == CurrentRating(movie_ratings, u, m) IN
    /\ rating_ops < MaxRatingOps
    /\ rating_ops' = rating_ops + 1
    /\ IF m \notin DOMAIN price
       THEN /\ UNCHANGED <<movie_ratings, movie_counters>>
            /\ resp' = Response("rate_movie", 404, "Movie not found")
       ELSE IF ~rowsReturned
       THEN /\ UNCHANGED <<movie_ratings, movie_counters>>
            /\ resp' = Response("rate_movie", 500, "ResourceClosedError")
       ELSE /\ movie_ratings' = (movie_ratings \ RatingRows(movie_ratings, u, m))
                                   \cup {[user_id |-> u, movie_id |-> m, rating |-> rating]}
            /\ movie_counters' = [movie_counters EXCEPT ![m] =
                                     UpdateMovieRatingStats(@, current_rating, rating)]
            /\ resp' = Response("rate_movie", 201, "")
    /\ UNCHANGED <<shopVars, reqs, movie_likes, user_favorite_movies, movie_comments>>

\* delete_rating; the deleted row is read from the result of a DELETE that has
\* no RETURNING clause (line 284), as in rate_movie
DeleteRating(u, m, rowsReturned) ==
    LET current_rating == CurrentRating(movie_ratings, u, m) IN
    /\ rating_ops < MaxRatingOps
    /\ rating_ops' = rating_ops + 1
    /\ IF current_rating = NoRating
       THEN /\ UNCHANGED <<movie_ratings, movie_counters>>
            /\ resp' = Response("delete_rating", 404, "You haven't rated this movie")
       ELSE IF ~rowsReturned
       THEN /\ UNCHANGED <<movie_ratings, movie_counters>>
            /\ resp' = Response("delete_rating", 500, "ResourceClosedError")
       ELSE /\ movie_ratings' = movie_ratings \ RatingRows(movie_ratings, u, m)
            /\ movie_counters' = [movie_counters EXCEPT ![m] =
                                     UpdateMovieRatingStats(@, current_rating, NoRating)]
            /\ resp' = Response("delete_rating", 204, "")
    /\ UNCHANGED <<shopVars, reqs, movie_likes, user_favorite_movies, movie_comments>>

RECURSIVE SumRatings(_)
SumRatings(rows) ==
    IF rows = {} THEN 0
    ELSE LET r == CHOOSE x \in rows : TRUE IN r.rating + SumRatings(rows \ {r})

\* mutant: every reaction row is counted as a like
BackfillCountsEveryReaction(likes, favorites, comments, ratings) ==
    [m \in MovieIds |->
        LET rated == {r \in ratings : r.movie_id = m}
            rating_count == Cardinality(rated)
        IN [like_count |-> Cardinality({r \in likes : r.movie_id = m}),
            favorite_count |-> Cardinality({r \in favorites : r.movie_id = m}),
            comment_count |-> Cardinality({c \in LiveComments(comments) :
                                              comments[c].movie_id = m}),
            rating_count |-> rating_count,
            rating_average |-> IF rating_count = 0 THEN 0
                               ELSE Round2(100 * SumRatings(rated), rating_count)]]

\* backfill_all_counters: every counter of every movie recomputed from the rows
BackfillAllCounters(likes, favorites, comments, ratings) ==
    [m \in MovieIds |->
        LET rated == {r \in ratings : r.movie_id = m}
            rating_count == Cardinality(rated)
        IN [like_count |-> Cardinality({r \in likes : r.movie_id = m /\ r.like}),
            favorite_count |-> Cardinality({r \in favorites : r.movie_id = m}),
            comment_count |-> Cardinality({c \in LiveComments(comments) :
                                              comments[c].movie_id = m}),
            rating_count |-> rating_count,
            rating_average |-> IF rating_count = 0 THEN 0
                               ELSE Round2(100 * SumRatings(rated), rating_count)]]

\* admin recount_all_counters
RecountAllCounters ==
    /\ movie_counters' = BackfillAllCounters(movie_likes, user_favorite_movies,
                                             movie_comments, movie_ratings)
    /\ resp' = Response("recount_all_counters", 200, "Recount started")
    /\ UNCHANGED <<shopVars, reqs, movie_likes, user_favorite_movies, movie_comments,
                   movie_ratings, rating_ops>>

\* ---------------------------------------------------------------- SpecRatings
\* The rating handlers of one movie and the admin recount, each running alone.
NextRatings ==
    \/ \E u \in Raters, m \in CountedMovies \cup {MissingMovieId}, rating \in RatingValues,
          rowsReturned \in BOOLEAN : RateMovie(u, m, rating, rowsReturned)
    \/ \E u \in Raters, m \in CountedMovies, rowsReturned \in BOOLEAN :
          DeleteRating(u, m, rowsReturned)
    \/ RecountAllCounters

SpecRatings == Init /\ [][NextRatings]_vars

\* ---------------------------------------------------------------- SpecBackfill
\* One user's reactions, favorites and comments, the ratings and the admin
\* recount, each request running alone.
NextBackfill ==
    \/ \E u \in Reactors, m \in CountedMovies, is_like \in BOOLEAN :
          ToggleMovieReaction(u, m, is_like)
    \/ \E u \in Reactors, m \in CountedMovies : RemoveReaction(u, m)
    \/ \E u \in Reactors, m \in CountedMovies : AddToFavorites(u, m)
    \/ \E u \in Reactors, m \in CountedMovies : RemoveFromFavorites(u, m)
    \/ \E u \in Reactors, m \in CountedMovies, parent_id \in {0} \cup CommentIds :
          CreateComment(u, m, parent_id)
    \/ \E u \in Reactors, m \in CountedMovies, c \in CommentIds : DeleteComment(u, m, c)
    \/ \E u \in Raters, m \in CountedMovies, rating \in RatingValues,
          rowsReturned \in BOOLEAN : RateMovie(u, m, rating, rowsReturned)
    \/ \E u \in Raters, m \in CountedMovies, rowsReturned \in BOOLEAN :
          DeleteRating(u, m, rowsReturned)
    \/ RecountAllCounters

SpecBackfill == Init /\ [][NextBackfill]_vars

\* ---------------------------------------------------------------- SpecRatingsConc
\* The rating handlers of distinct users running concurrently.  The movie row
\* is loaded into the session (rate_movie line 74, update_movie_rating_stats
\* line 182) and the new statistics are computed from the loaded values; the
\* flush at the commit writes the attributes that were assigned a new value.

\* the caller has no other request in flight
NoRequestOf(u) == \A r \in Reqs : reqs[r].op = "idle" \/ reqs[r].user # u

\* the UPDATE of the movie row that the unit of work emits: only the
\* attributes whose value differs from the loaded one
FlushRatingStats(st, loaded, computed) ==
    [st EXCEPT !.rating_count = IF computed.rating_count = loaded.rating_count
                                THEN @ ELSE computed.rating_count,
               !.rating_average = IF computed.rating_average = loaded.rating_average
                                  THEN @ ELSE computed.rating_average]

\* rate_movie, lines 74-87: the movie row and the caller's rating are read
RateBegin(u, m, rating) ==
    /\ rating_ops < MaxRatingOps
    /\ rating_ops' = rating_ops + 1
    /\ HasFreeReq
    /\ NoRequestOf(u)
    /\ IF m \notin DOMAIN price
       THEN /\ reqs' = reqs
            /\ resp' = Response("rate_movie", 404, "Movie not found")
       ELSE /\ reqs' = [reqs EXCEPT ![FreeReq] =
                          [op |-> "rate_movie", user |-> u, id |-> m, rating |-> rating,
                           current_rating |-> CurrentRating(movie_ratings, u, m),
                           loaded |-> movie_counters[m]]]
            /\ resp' = resp
    /\ UNCHANGED <<shopVars, movie_likes, user_favorite_movies, movie_comments,
                   movie_ratings, movie_counters>>

\* rate_movie, lines 89-119: the row is written, the statistics are computed
\* from the loaded movie row (an update of a rating with a loaded count of 0
\* divides by zero) and the transaction commits
RateCommit(r, rowsReturned) ==
    LET u == reqs[r].user
        m == reqs[r].id
    IN
    /\ reqs[r].op = "rate_movie"
    /\ IF ~rowsReturned
       THEN /\ UNCHANGED <<movie_ratings, movie_counters>>
            /\ resp' = Response("rate_movie", 500, "ResourceClosedError")
       ELSE IF reqs[r].current_rating # NoRating /\ reqs[r].loaded.rating_count = 0
       THEN /\ UNCHANGED <<movie_ratings, movie_counters>>
            /\ resp' = Response("rate_movie", 500, "ZeroDivisionError")
       ELSE /\ movie_ratings' = (movie_ratings \ RatingRows(movie_ratings, u, m))
                                   \cup {[user_id |-> u, movie_id |-> m,
                                          rating |-> reqs[r].rating]}
            /\ movie_counters' = [movie_counters EXCEPT ![m] =
                  FlushRatingStats(@, reqs[r].loaded,
                                   UpdateMovieRatingStats(reqs[r].loaded,
                                                          reqs[r].current_rating,
                                                          reqs[r].rating))]
            /\ resp' = Response("rate_movie", 201, "")
    /\ reqs' = [reqs EXCEPT ![r] = IdleReq]
    /\ UNCHANGED <<shopVars, movie_likes, user_favorite_movies, movie_comments, rating_ops>>

\* delete_rating, lines 264-289: the caller's rating is read, the DELETE is
\* sent and update_movie_rating_stats loads the movie row
DeleteRatingBegin(u, m) ==
    LET current_rating == CurrentRating(movie_ratings, u, m) IN
    /\ rating_ops < MaxRatingOps
    /\ rating_ops' = rating_ops + 1
    /\ HasFreeReq
    /\ NoRequestOf(u)
    /\ IF current_rating = NoRating
       THEN /\ reqs' = reqs
            /\ resp' = Response("delete_rating", 404, "You haven't rated this movie")
       ELSE /\ reqs' = [reqs EXCEPT ![FreeReq] =
                          [op |-> "delete_rating", user |-> u, id |-> m, rating |-> NoRating,
                           current_rating |-> current_rating,
                           loaded |-> movie_counters[m]]]
            /\ resp' = resp
    /\ UNCHANGED <<shopVars, movie_likes, user_favorite_movies, movie_comments,
                   movie_ratings, movie_counters>>

\* delete_rating, lines 284-295: the statistics computed from the loaded movie
\* row are flushed and the transaction commits
DeleteRatingCommit(r, rowsReturned) ==
    LET u == reqs[r].user
        m == reqs[r].id
    IN
    /\ reqs[r].op = "delete_rating"
    /\ IF ~rowsReturned
       THEN /\ UNCHANGED <<movie_ratings, movie_counters>>
            /\ resp' = Response("delete_rating", 500, "ResourceClosedError")
       ELSE /\ movie_ratings' = movie_ratings \ RatingRows(movie_ratings, u, m)
            /\ movie_counters' = [movie_counters EXCEPT ![m] =
                  FlushRatingStats(@, reqs[r].loaded,
                                   UpdateMovieRatingStats(reqs[r].loaded,
                                                          reqs[r].current_rating,
                                                          NoRating))]
            /\ resp' = Response("delete_rating", 204, "")
    /\ reqs' = [reqs EXCEPT ![r] = IdleReq]
    /\ UNCHANGED <<shopVars, movie_likes, user_favorite_movies, movie_comments, rating_ops>>

NextRatingsConc ==
    \/ \E u \in Raters, m \in CountedMovies \cup {MissingMovieId}, rating \in RatingValues :
          RateBegin(u, m, rating)
    \/ \E r \in Reqs, rowsReturned \in BOOLEAN : RateCommit(r, rowsReturned)
    \/ \E u \in Raters, m \in CountedMovies : DeleteRatingBegin(u, m)
    \/ \E r \in Reqs, rowsReturned \in BOOLEAN : DeleteRatingCommit(r, rowsReturned)

SpecRatingsConc == Init /\ [][NextRatingsConc]_vars

\* ================================================================ claims

\* the sum of an order's item prices, taken movie by movie
C1_ItemSum(o) ==
    LET priceOf == [m \in MovieIds |->
                      IF \E it \in orders[o].items : it.movie_id = m
                      THEN (CHOOSE it \in orders[o].items : it.movie_id = m).price_at_order
                      ELSE 0]
    IN SumMoviePrices(MovieIds, priceOf)

\* C1: in every state the sum of price_at_order over an order's items equals
\* its total_amount, and no step changes the total_amount or the items of an
\* existing order (catalog price changes, cancel, payment and refund included).
C1_TotalEqualsItems ==
    \A o \in DOMAIN orders : C1_ItemSum(o) = orders[o].total_amount

C1_AmountsKept ==
    \A o \in DOMAIN orders :
        /\ o \in DOMAIN orders'
        /\ orders'[o].total_amount = orders[o].total_amount
        /\ orders'[o].items = orders[o].items
        /\ orders'[o].user_id = orders[o].user_id

C1_OrderTotalImmutable == []C1_TotalEqualsItems /\ [][C1_AmountsKept]_vars

\* a refunded two-item order whose movie has been repriced since checkout
C1_Witness ==
    \E o \in DOMAIN orders :
        /\ orders[o].status = REFUNDED
        /\ Cardinality(orders[o].items) = 2
        /\ \E it \in orders[o].items : price[it.movie_id] # it.price_at_order

\* C2: a payment_intent.succeeded event delivered again after it was processed
\* answers "already_processed" and changes no payment, order or cart; the
\* first delivery creates the one payment row of that external id and marks
\* the order PAID; no external id ever has two rows when handlers run alone.
C2_Delivery ==
    \A i \in IntentIds, emailOk \in BOOLEAN :
        WebhookSucceeded(i, emailOk) =>
            IF \E p \in DOMAIN payments : payments[p].external_payment_id = i
            THEN /\ resp'.status = 200
                 /\ resp'.detail = "already_processed"
                 /\ payments' = payments
                 /\ orders' = orders
                 /\ carts' = carts
            ELSE /\ Cardinality({p \in DOMAIN payments' :
                                    payments'[p].external_payment_id = i}) = 1
                 /\ Len(payments') = Len(payments) + 1
                 /\ orders'[intents[i].order_id].status = PAID

C2_OneRowPerExternalId ==
    \A i \in IntentIds :
        Cardinality({p \in DOMAIN payments : payments[p].external_payment_id = i}) <= 1

C2_WebhookIdempotent == []C2_OneRowPerExternalId /\ [][C2_Delivery]_vars

C2_Witness ==
    /\ resp = Response("stripe_webhook", 200, "already_processed")
    /\ \E p \in DOMAIN payments :
          /\ payments[p].status = SUCCESSFUL
          /\ orders[payments[p].order_id].status = PAID

\* C3: with concurrent webhook handlers, at most one payment row exists per
\* external_payment_id in every reachable state.
C3_UniqueExternalPaymentId ==
    \A p, q \in DOMAIN payments :
        payments[p].external_payment_id = payments[q].external_payment_id => p = q

\* C4: the only status changes of an order are PENDING -> PAID,
\* PENDING -> CANCELED and PAID -> REFUNDED.
C4_LegalTransition(old, new) ==
    \/ old = new
    \/ old = PENDING /\ new \in {PAID, CANCELED}
    \/ old = PAID /\ new = REFUNDED

C4_OnlyLegalTransitions ==
    [][\A o \in DOMAIN orders :
          C4_LegalTransition(orders[o].status, orders'[o].status)]_vars

\* C5: when cancel_order and a succeeded webhook for the same PENDING order
\* overlap, the handler that commits second does not overwrite the status the
\* first one wrote: a commit by a handler that saw PENDING leaves the status
\* alone when it is no longer PENDING.
C5_LoserKeepsStatus ==
    [][\A r \in Reqs :
          (/\ reqs[r].op \in {"cancel_order", "stripe_webhook"}
           /\ reqs'[r].op = "idle"
           /\ reqs[r].seen = PENDING
           /\ orders[reqs[r].id].status # PENDING)
          => orders'[reqs[r].id].status = orders[reqs[r].id].status]_vars

\* C6: an order is PAID if and only if a SUCCESSFUL payment references it.
C6_PaidIffSuccessfulPayment ==
    \A o \in DOMAIN orders :
        (orders[o].status = PAID)
        <=> (\E p \in DOMAIN payments :
                payments[p].order_id = o /\ payments[p].status = SUCCESSFUL)

\* C7: refund_payment on a SUCCESSFUL payment (provider accepting) answers 200
\* and sets the payment and its order to REFUNDED; on a payment that is
\* REFUNDED, or neither SUCCESSFUL nor REFUNDED, it answers 409 and changes
\* nothing; a REFUNDED payment stays REFUNDED and the provider sees at most one
\* refund per payment intent.
C7_RefundStep ==
    /\ \A p \in PaymentIds, providerOk \in BOOLEAN :
        RefundPayment(p, providerOk) /\ p \in DOMAIN payments =>
            IF payments[p].status = SUCCESSFUL
            THEN providerOk =>
                    /\ resp' = Response("refund_payment", 200, REFUNDED)
                    /\ payments'[p].status = REFUNDED
                    /\ orders'[payments[p].order_id].status = REFUNDED
            ELSE /\ resp'.op = "refund_payment"
                 /\ resp'.status = 409
                 /\ payments' = payments
                 /\ orders' = orders
                 /\ refundCount' = refundCount
    /\ \A p \in DOMAIN payments :
        payments[p].status = REFUNDED => payments'[p].status = REFUNDED

C7_AtMostOneRefund == \A i \in IntentIds : refundCount[i] <= 1

C7_RefundExactlyOnce == []C7_AtMostOneRefund /\ [][C7_RefundStep]_vars

C7_Witness ==
    /\ resp = Response("refund_payment", 409, "Payment is already refunded")
    /\ \E p \in DOMAIN payments :
          /\ payments[p].status = REFUNDED
          /\ orders[payments[p].order_id].status = REFUNDED
          /\ refundCount[payments[p].external_payment_id] = 1

\* C8: a refund_payment whose provider call fails answers with an error and
\* leaves every payment and every order as it was.
C8_ProviderFailureWritesNothing ==
    [][(resp'.op = "refund_payment" /\ resp'.status = 400)
          => /\ payments' = payments
             /\ orders' = orders
             /\ refundCount' = refundCount]_vars

C8_Witness ==
    /\ resp = Response("refund_payment", 400, "Stripe error")
    /\ \E p \in DOMAIN payments :
          /\ payments[p].status = SUCCESSFUL
          /\ orders[payments[p].order_id].status = PAID

\* C9: cancel_order answers 404 for a missing order or another user's order,
\* 409 for an order that is not PENDING, and in both cases changes no order;
\* otherwise it answers 200 and sets that order, and no other, to CANCELED.
C9_CancelStep ==
    \A u \in Users, o \in OrderIds :
        CancelOrder(u, o) =>
            IF o \notin DOMAIN orders \/ orders[o].user_id # u
            THEN resp'.status = 404 /\ orders' = orders
            ELSE IF orders[o].status # PENDING
            THEN resp'.status = 409 /\ orders' = orders
            ELSE /\ resp'.status = 200
                 /\ orders' = [orders EXCEPT ![o].status = CANCELED]

C9_CancelOnlyPending == [][C9_CancelStep]_vars

C9_Witness ==
    /\ resp = Response("cancel_order", 409, "Only pending orders can be canceled.")
    /\ \E o \in DOMAIN orders : orders[o].status = CANCELED
    /\ \E o \in DOMAIN orders : orders[o].status = PAID

\* C10: create_payment creates a provider intent exactly when the order
\* exists, belongs to the caller, is PENDING and its items sum to the stored
\* total_amount; otherwise it answers 404, or 400 "Order total mismatch", and
\* the provider is not called; it never changes payments, orders or carts.
C10_CreatePaymentStep ==
    \A u \in Users, o \in OrderIds :
        CreatePayment(u, o) =>
            LET payable == /\ o \in DOMAIN orders
                           /\ orders[o].user_id = u
                           /\ orders[o].status = PENDING
            IN /\ payments' = payments /\ orders' = orders /\ carts' = carts
               /\ IF ~payable
                  THEN resp'.status = 404 /\ intents' = intents
                  ELSE IF C1_ItemSum(o) # orders[o].total_amount
                  THEN /\ resp' = Response("create_payment", 400, "Order total mismatch")
                       /\ intents' = intents
                  ELSE /\ resp'.status = 201
                       /\ intents' = Append(intents, [order_id |-> o, user_id |-> u])

C10_CreatePaymentGuarded == [][C10_CreatePaymentStep]_vars

C10_Witness ==
    /\ resp = Response("create_payment", 400, "Order total mismatch")
    /\ intents # <<>>
    /\ payments = <<>>

\* the caller's cart holds a movie of one of the caller's PAID orders
C11_PaidInCart(u) ==
    /\ u \in DOMAIN carts
    /\ \E o \in DOMAIN orders :
          /\ orders[o].user_id = u
          /\ orders[o].status = PAID
          /\ \E it \in orders[o].items : it.movie_id \in carts[u]

\* C11: place_order answers 409 and creates no order whenever a movie of the
\* caller's cart is in a PAID order of the caller; whatever the cart holds, an
\* order that is created contains no movie of a PAID order of its user.
C11_PlaceOrderStep ==
    /\ \A u \in Users :
          PlaceOrder(u) /\ C11_PaidInCart(u) =>
              /\ resp' = Response("place_order", 409, "Movies already in pending order")
              /\ orders' = orders
    /\ \A o \in DOMAIN orders' \ DOMAIN orders :
          \A it \in orders'[o].items :
              ~ \E q \in DOMAIN orders :
                    /\ orders[q].user_id = orders'[o].user_id
                    /\ orders[q].status = PAID
                    /\ \E jt \in orders[q].items : jt.movie_id = it.movie_id

C12_AddStep ==
    \A u \in Users, m \in MovieIds \cup {MissingMovieId} :
        AddMovieToCart(u, m) =>
            LET lines == IF u \in DOMAIN carts THEN carts[u] ELSE {}
                purchased == \E o \in DOMAIN orders :
                                /\ orders[o].user_id = u
                                /\ orders[o].status = PAID
                                /\ \E it \in orders[o].items : it.movie_id = m
            IN /\ \A v \in DOMAIN carts \ {u} : carts'[v] = carts[v]
               /\ IF m \notin DOMAIN price
                  THEN /\ resp' = Response("add_movie_to_cart", 404, "Movie does not exist.")
                       /\ carts'[u] = lines
                  ELSE IF m \in lines
                  THEN /\ resp' = Response("add_movie_to_cart", 400,
                                           "Movie is already in the cart.")
                       /\ carts'[u] = lines
                  ELSE IF purchased
                  THEN /\ resp' = Response("add_movie_to_cart", 400,
                                           "Movie has already been purchased.")
                       /\ carts'[u] = lines
                  ELSE /\ resp'.status = 201
                       /\ carts'[u] = lines \cup {m}
                       /\ Cardinality(carts'[u]) = Cardinality(lines) + 1

C13_PaidFor(u, pays, ords) ==
    {m \in MovieIds :
        \E p \in DOMAIN pays :
            /\ pays[p].user_id = u
            /\ pays[p].status = SUCCESSFUL
            /\ \E it \in ords[pays[p].order_id].items : it.movie_id = m}

\* C13: the cart cleanup of a succeeded webhook removes from the paying
\* user's cart exactly the lines whose movie has a SUCCESSFUL payment of that
\* user; the other lines of that cart and every other cart stay as they were.
C13_CleanupStep ==
    \A i \in IntentIds, emailOk \in BOOLEAN :
        WebhookSucceeded(i, emailOk) /\ Len(payments') > Len(payments) =>
            /\ DOMAIN carts' = DOMAIN carts
            /\ \A v \in DOMAIN carts :
                  carts'[v] = IF v = intents[i].user_id
                              THEN carts[v] \ C13_PaidFor(v, payments', orders')
                              ELSE carts[v]

C13_CleanupRemovesPaidLinesOnly == [][C13_CleanupStep]_vars

\* after a payment: the paid movie has left the payer's cart, a movie whose
\* payment was refunded is still in it, and the other user's cart has lines
C13_Witness ==
    /\ resp = Response("stripe_webhook", 200, "ok")
    /\ 2 \in DOMAIN carts /\ carts[2] # {}
    /\ \E p, q \in DOMAIN payments :
          /\ payments[p].user_id = 1 /\ payments[p].status = SUCCESSFUL
          /\ \A it \in orders[payments[p].order_id].items : it.movie_id \notin carts[1]
          /\ payments[q].user_id = 1 /\ payments[q].status = REFUNDED
          /\ \E it \in orders[payments[q].order_id].items : it.movie_id \in carts[1]

\* C14: place_order leaves every cart as it was, and a step that removes a
\* line from a cart is a remove_from_cart or a succeeded webhook.
C14_CartStep ==
    /\ \A u \in Users : PlaceOrder(u) => carts' = carts
    /\ (\E u \in DOMAIN carts : u \notin DOMAIN carts' \/ ~ (carts[u] \subseteq carts'[u]))
          => \/ \E u \in Users, m \in MovieIds : RemoveFromCart(u, m)
             \/ \E i \in IntentIds, emailOk \in BOOLEAN : WebhookSucceeded(i, emailOk)

C14_PlaceOrderKeepsCart == [][C14_CartStep]_vars

C14_Witness ==
    /\ resp = Response("place_order", 201, PENDING)
    /\ \E o \in DOMAIN orders :
          /\ orders[o].status = PENDING
          /\ orders[o].user_id \in DOMAIN carts
          /\ {it.movie_id : it \in orders[o].items} = carts[orders[o].user_id]

\* C15: place_order answers "Cart is empty." and creates no order when the
\* caller has no cart or the cart has no lines; every order has an item.
C15_EmptyCartStep ==
    \A u \in Users :
        PlaceOrder(u) /\ (u \notin DOMAIN carts \/ carts[u] = {}) =>
            /\ resp' = Response("place_order", 400, "Cart is empty.")
            /\ orders' = orders

C15_OrdersHaveItems == \A o \in DOMAIN orders : orders[o].items # {}

C15_EmptyCartRejected == []C15_OrdersHaveItems /\ [][C15_EmptyCartStep]_vars

C15_Witness ==
    /\ resp = Response("place_order", 400, "Cart is empty.")
    /\ 1 \in DOMAIN carts /\ carts[1] = {}
    /\ orders # <<>>

\* C16: a payment_failed event, an event of another type and an event whose
\* signature does not verify create no payment and change no order and no
\* cart; a step that creates a payment row is a succeeded webhook.
C16_WebhookStep ==
    /\ \A i \in IntentIds, emailOk \in BOOLEAN :
          WebhookFailed(i, emailOk) =>
              payments' = payments /\ orders' = orders /\ carts' = carts
    /\ \A sigOk \in BOOLEAN :
          WebhookIgnored(sigOk) =>
              payments' = payments /\ orders' = orders /\ carts' = carts
    /\ Len(payments') > Len(payments)
          => \E i \in IntentIds, emailOk \in BOOLEAN : WebhookSucceeded(i, emailOk)

C16_OnlySuccessCreatesPayment == [][C16_WebhookStep]_vars

\* a payment_failed event was acknowledged: no payment row exists, the order
\* is still PENDING and the cart still has its lines
C16_Witness ==
    /\ resp = Response("stripe_webhook", 200, "ok")
    /\ payments = <<>>
    /\ \E i \in DOMAIN intents :
          /\ orders[intents[i].order_id].status = PENDING
          /\ carts[intents[i].user_id] # {}

\* C17: a succeeded or payment_failed webhook answers 200 whether or not the
\* notification could be sent.
C17_NotificationFailureAcknowledged ==
    [][\A i \in IntentIds, emailOk \in BOOLEAN :
          (WebhookSucceeded(i, emailOk) \/ WebhookFailed(i, emailOk))
              => resp'.status = 200]_vars

\* C18: like_count, favorite_count and comment_count are never negative,
\* whatever the interleaving of concurrent like, dislike, remove-reaction,
\* favorite, unfavorite, create-comment and delete-comment requests.
C18_CountersNeverNegative ==
    \A m \in MovieIds :
        /\ movie_counters[m].like_count >= 0
        /\ movie_counters[m].favorite_count >= 0
        /\ movie_counters[m].comment_count >= 0

\* C19: once every concurrent reaction and favorite request has completed,
\* like_count is the number of movie_likes rows with like = true and
\* favorite_count is the number of user_favorite_movies rows of the movie.
C19_CountsMatchRowsAtQuiescence ==
    (\A r \in Reqs : reqs[r].op = "idle") =>
        \A m \in MovieIds :
            /\ movie_counters[m].like_count
                  = Cardinality({x \in movie_likes : x.movie_id = m /\ x.like})
            /\ movie_counters[m].favorite_count
                  = Cardinality({x \in user_favorite_movies : x.movie_id = m})

\* C20: after any sequence of rating inserts, updates and deletes, each running
\* alone, the stored rating_count and rating_average are the ones that
\* backfill_all_counters computes from the rating rows: the number of rows
\* and their mean rounded to two decimals.
C20_RatingStatsMatchBackfill ==
    \A m \in MovieIds :
        LET recount == BackfillAllCounters(movie_likes, user_favorite_movies,
                                           movie_comments, movie_ratings)[m]
        IN /\ movie_counters[m].rating_count = recount.rating_count
           /\ movie_counters[m].rating_average = recount.rating_average

\* C21: when the reaction and favorite handlers run one after another, by any
\* users, like_count is the number of reaction rows with like = true and
\* favorite_count is the number of favorite rows
C21_CountsMatchRows ==
    \A m \in MovieIds :
        /\ movie_counters[m].like_count =
               Cardinality({r \in movie_likes : r.movie_id = m /\ r.like})
        /\ movie_counters[m].favorite_count =
               Cardinality({r \in user_favorite_movies : r.movie_id = m})

\* C21: a dislike and a repeated reaction add nothing to like_count, removing
\* a dislike leaves it alone, and a duplicate favorite is answered 409 with no
\* change
C21_ReactionStep ==
    \A u \in Users, m \in CountedMovies :
        LET mine == {r \in movie_likes : r.user_id = u /\ r.movie_id = m}
            liked == \E r \in mine : r.like
            disliked == \E r \in mine : ~r.like
        IN
        /\ DislikeMovie(u, m)
              => movie_counters'[m].like_count <= movie_counters[m].like_count
        /\ LikeMovie(u, m) /\ liked => UNCHANGED <<movie_likes, movie_counters>>
        /\ DislikeMovie(u, m) /\ disliked => UNCHANGED <<movie_likes, movie_counters>>
        /\ RemoveReaction(u, m) /\ disliked
              => /\ movie_counters' = movie_counters
                 /\ movie_likes' = movie_likes \ mine
        /\ AddToFavorites(u, m) /\ [user_id |-> u, movie_id |-> m] \in user_favorite_movies
              => /\ resp'.status = 409
                 /\ UNCHANGED <<user_favorite_movies, movie_counters>>

C21_ReactionCountsExact == []C21_CountsMatchRows /\ [][C21_ReactionStep]_vars

\* one user likes the movie, the other dislikes it, and one of them holds it
\* as a favorite
C21_Witness ==
    /\ \E r \in movie_likes : r.like
    /\ \E r \in movie_likes : ~r.like
    /\ movie_counters[1].like_count = 1
    /\ movie_counters[1].favorite_count = 1
    /\ resp.op = "add_to_favorites"
    /\ resp.status = 409

RECURSIVE C24_Sum(_)
C24_Sum(rows) ==
    IF rows = {} THEN 0
    ELSE LET r == CHOOSE x \in rows : TRUE IN r.rating + C24_Sum(rows \ {r})

\* C24: a recount that runs alone leaves every counter of every movie equal to
\* the number of its source rows (reactions with like = true, favorites,
\* comments, ratings) and rating_average equal to the mean of the ratings
\* rounded to the nearest hundredth, 0.0 without ratings
C24_RecountStep ==
    RecountAllCounters =>
        \A m \in MovieIds :
            LET rated == {r \in movie_ratings : r.movie_id = m}
                n == Cardinality(rated)
                avg == movie_counters'[m].rating_average
                diff == 100 * C24_Sum(rated) - avg * n
            IN /\ movie_counters'[m].like_count =
                      Cardinality({r \in movie_likes : r.movie_id = m /\ r.like})
               /\ movie_counters'[m].favorite_count =
                      Cardinality({r \in user_favorite_movies : r.movie_id = m})
               /\ movie_counters'[m].comment_count =
                      Cardinality({c \in DOMAIN movie_comments :
                                      movie_comments[c].live /\ movie_comments[c].movie_id = m})
               /\ movie_counters'[m].rating_count = n
               /\ n = 0 => avg = 0
               /\ n > 0 => 2 * diff <= n /\ 2 * diff >= 0 - n

\* C24: a recount that follows a recount changes no counter
C24_RepeatStep ==
    resp.op = "recount_all_counters" /\ RecountAllCounters
        => movie_counters' = movie_counters

C24_BackfillExactAndIdempotent == [][C24_RecountStep /\ C24_RepeatStep]_vars

\* a recount has run over a dislike, a favorite, a comment thread deleted
\* through its parent and three ratings whose mean is not a whole hundredth
C24_Witness ==
    /\ resp.op = "recount_all_counters"
    /\ \E r \in movie_likes : ~r.like
    /\ user_favorite_movies # {}
    /\ Len(movie_comments) = 2
    /\ movie_comments[2].parent_id = 1
    /\ ~movie_comments[1].live
    /\ movie_counters[1].comment_count = 0
    /\ movie_counters[1].rating_count = 3
    /\ movie_counters[1].rating_average = 167

\* C25: when the comment handlers run one after another, comment_count is the
\* number of comment rows of the movie, also after a comment with replies was
\* deleted
C25_CommentCountMatchesRows ==
    \A m \in MovieIds :
        movie_counters[m].comment_count =
            Cardinality({c \in DOMAIN movie_comments :
                            movie_comments[c].live /\ movie_comments[c].movie_id = m})

\* the sum of a payment's item prices
RECURSIVE C26_SumPriceAtPayment(_)
C26_SumPriceAtPayment(items) ==
    IF items = {} THEN 0
    ELSE LET it == CHOOSE x \in items : TRUE
         IN it.price_at_payment + C26_SumPriceAtPayment(items \ {it})

\* C26: a payment mirrors its order: its amount is the order's total, it has
\* exactly one payment item per order item, priced at the item's
\* price_at_order, and the payment items sum to the amount
C26_PaymentMirrorsOrder ==
    \A p \in DOMAIN payments :
        LET order == orders[payments[p].order_id] IN
        /\ payments[p].amount = order.total_amount
        /\ \A oi \in order.items :
              Cardinality({x \in payments[p].items : x.order_item_id = oi.id}) = 1
        /\ \A x \in payments[p].items :
              \E oi \in order.items : /\ oi.id = x.order_item_id
                                      /\ oi.price_at_order = x.price_at_payment
        /\ C26_SumPriceAtPayment(payments[p].items) = payments[p].amount

\* C26: the payment that a succeeded event creates is SUCCESSFUL
C26_CreatedSuccessful ==
    \A i \in IntentIds, emailOk \in BOOLEAN :
        WebhookSucceeded(i, emailOk) /\ Len(payments') > Len(payments)
            => /\ Len(payments') = Len(payments) + 1
               /\ payments'[Len(payments')].status = SUCCESSFUL
               /\ payments'[Len(payments')].external_payment_id = i
               /\ payments'[Len(payments')].order_id = intents[i].order_id

C26_PaymentBuiltFromOrder == []C26_PaymentMirrorsOrder /\ [][C26_CreatedSuccessful]_vars

\* a succeeded event has just created the payment of an order of two movies
\* bought at different prices
C26_Witness ==
    /\ resp.op = "stripe_webhook"
    /\ \E p \in DOMAIN payments :
          /\ payments[p].status = SUCCESSFUL
          /\ payments[p].amount = 12
          /\ Cardinality(payments[p].items) = 2

\* C27: no movie is part of two different PAID orders of the same user
C27_NoMoviePaidTwice ==
    \A o1, o2 \in DOMAIN orders :
        /\ o1 # o2
        /\ orders[o1].user_id = orders[o2].user_id
        /\ orders[o1].status = PAID
        /\ orders[o2].status = PAID
        => {it.movie_id : it \in orders[o1].items}
               \cap {it.movie_id : it \in orders[o2].items} = {}

\* C28: an order is referenced by at most one SUCCESSFUL payment
C28_OneSuccessfulPaymentPerOrder ==
    \A p1, p2 \in DOMAIN payments :
        /\ payments[p1].order_id = payments[p2].order_id
        /\ payments[p1].status = SUCCESSFUL
        /\ payments[p2].status = SUCCESSFUL
        => p1 = p2

\* C29: of two concurrent refund_payment calls on one payment, only one reaches
\* the provider: the provider makes at most one refund per payment
C29_AtMostOneRefundMade ==
    \A p \in DOMAIN payments : refundCount[payments[p].external_payment_id] <= 1

\* C29: the provider is called, and success is reported, only for a payment
\* that no other call has refunded in the meantime
C29_RefundCallStep ==
    \A r \in Reqs, providerOk \in BOOLEAN :
        RefundCommit(r, providerOk) => payments[reqs[r].id].status = SUCCESSFUL

C29_ConcurrentRefundOnce == []C29_AtMostOneRefundMade /\ [][C29_RefundCallStep]_vars

\* C30: no cart holds a movie that is part of a PAID order of its user
C30_NoPaidMovieInCart ==
    \A u \in DOMAIN carts :
        \A o \in DOMAIN orders :
            orders[o].user_id = u /\ orders[o].status = PAID
                => carts[u] \cap {it.movie_id : it \in orders[o].items} = {}

====
